---- MODULE Spec2Model ----
(***************************************************************************)
(* lunchmoney-mcp-v2: the reference-data cache (src/cache.ts), the         *)
(* formatters that hydrate records through it (src/format.ts), the tool    *)
(* handlers that mutate remote resources and refresh the cache             *)
(* (src/tools/*.ts) and the entry point (src/index.ts).                    *)
(*                                                                         *)
(* JavaScript runs each handler segment between two awaits atomically, so  *)
(* every action below is one such segment.  A segment that sends a request *)
(* also contains the remote side serving it: sending has no local effect,  *)
(* and the segment itself is triggered by a message whose delay is         *)
(* arbitrary, so every order of "remote serves" and "response arrives"     *)
(* events of concurrent tool calls is still produced.                      *)
(***************************************************************************)
EXTENDS Integers, Sequences, FiniteSets, TLC

\* ------------------------------------------------------------------ bounds
MaxId == 2          \* remote ids are 1..MaxId; MaxId + 1 is never assigned
MaxCalls == 2       \* tool calls received over the life of the process
MaxInFlight == 2    \* tool calls whose handler has not returned yet

\* ------------------------------------------------------------------ values
Types == {"categories", "tags", "manualAccounts", "plaidAccounts"}
Ids == 1..MaxId
UnknownId == MaxId + 1
NewNames == {"Main"}

\* number | null, string | null: the empty tuple is null, <<v>> is v
Null == <<>>
Some(v) == <<v>>

\* the result of a call that may throw
Ok(v) == [ok |-> TRUE, val |-> v]
Threw(msg) == [ok |-> FALSE, err |-> msg]

VARIABLES
  token,      \* LUNCHMONEY_TOKEN is set in the environment
  mainPc,     \* position of main(): "start", "exited", "init", "connected"
  initState,  \* the promise of initCache(): "none", "pending", "ok", "failed"
  initFetch,  \* per resource type, the fetch of initCache: "idle", "pending", "ok", "err"
  initRes,    \* per resource type, the Map a fulfilled fetch of initCache returned
  cache,      \* the module-level `cache`: Null, or Some(record of the four Maps)
  remote,     \* the remote resource sets, per resource type: id -> record
  nextId,     \* the id the remote assigns to the next created resource, per type
  remoteVer,  \* history: number of mutations the remote has applied, per type
  cacheVer,   \* history: remoteVer at which the installed table was fetched, per type
  ackVer,     \* history: highest remoteVer of a mutation whose tool call returned success
  installed,  \* history: per type, the Map handed to the assignment that set the table last
  initCalls,  \* history: number of times main has called initCache()
  initOrder,  \* history: the resource types in the order their initCache fetch settled
  fetches,    \* history: number of GETs the cache's fetchers have sent, per type
  refreshes,  \* history: number of refreshCache(type) calls, per type
  refreshFailed, \* history: the fetch of some refreshCache call has failed
  trial,      \* a function under test apart from the server: its input and result
  calls,      \* the tool calls in flight (handler started, not yet returned)
  nCalls,     \* number of tool calls received so far
  returned    \* the result the handler that ran in this step returned, if any

vars == <<token, mainPc, initState, initFetch, initRes, cache, remote, nextId,
          remoteVer, cacheVer, ackVer, installed, initCalls, initOrder, fetches,
          refreshes, refreshFailed, trial, calls, nCalls, returned>>

\* ------------------------------------------------------------------ remote
\* The account as it stands before any call: the scenarios of the README's
\* categories / tags / accounts, with ids small enough to enumerate.
InitialRemote ==
  [categories     |-> (1 :> [name |-> "Food", group_id |-> Null]),
   tags           |-> (1 :> [name |-> "work"]),
   manualAccounts |-> (1 :> [name |-> "Checking", display_name |-> Null]),
   plaidAccounts  |-> (2 :> [name |-> "Savings", display_name |-> Some("Nest")])]

EmptyTable == [i \in {} |-> Null]

\* ------------------------------------------------------------------ cache.ts
NotInitialized == "Cache not initialized. Call initCache() first."

\* (mutant) getCache() that answers an uninitialized cache with empty tables
getCacheLenient ==
  IF cache = Null THEN Ok([t \in Types |-> EmptyTable]) ELSE Ok(cache[1])

\* (mutant) getCache() that makes up a cache when there is none
getCacheCreating ==
  Ok(IF cache = Null THEN [t \in Types |-> EmptyTable] ELSE cache[1])

\* getCache(): the cache object, or throws
getCache ==
  IF cache = Null THEN Threw(NotInitialized) ELSE Ok(cache[1])

\* a fetcher's result: the Map built from the response's records, keyed by id
BuildMap(records) == records

\* `cache = { categories, tags, manualAccounts, plaidAccounts }`: the object
\* built from the Maps the awaited fetches gave
Publish(res) == Some([t \in {x \in Types : res[x] # Null} |-> res[t][1]])

\* the array handed to Promise.all: fetchCategories(), fetchTags(),
\* fetchManualAccounts(), fetchPlaidAccounts()
TypeSeq == <<"categories", "tags", "manualAccounts", "plaidAccounts">>

\* the position of a resource type's promise in that array
Pos(t) == CHOOSE i \in 1..Len(TypeSeq) : TypeSeq[i] = t

\* (mutant) an aggregate that yields the values in the order they arrived
AllValuesByArrival(res, order) ==
  IF Len(order) = Len(TypeSeq) THEN [t \in Types |-> res[order[Pos(t)]]] ELSE res

\* the values Promise.all yields, destructured by position: the value at a
\* promise's position is that promise's own, whatever the order of arrival
AllValues(res, order) == [t \in Types |-> res[TypeSeq[Pos(t)]]]

\* (mutant) a fetcher that sends its GET again when the first one failed
AfterFetchErrorRetry(f, t) == [f EXCEPT ![t] = @ + 1]

\* a fetcher sends one GET
SendFetch(f, t) == [f EXCEPT ![t] = @ + 1]

\* `if (error) handleError(response.status, error)`: the fetcher throws and
\* sends nothing more
AfterFetchError(f, t) == f

\* (mutant) Promise.any: fulfilled as soon as one fetch is
AllStateAny(f) ==
  IF \E t \in Types : f[t] = "ok" THEN "ok"
  ELSE IF \A t \in Types : f[t] = "err" THEN "failed"
  ELSE "pending"

\* (mutant) Promise.allSettled: fulfilled once all four have settled
AllStateSettled(f) ==
  IF \A t \in Types : f[t] \in {"ok", "err"} THEN "ok" ELSE "pending"

\* Promise.all over the four fetches: fulfilled when all four are, rejected
\* as soon as one is.
AllState(f) ==
  IF \E t \in Types : f[t] = "err" THEN "failed"
  ELSE IF \A t \in Types : f[t] = "ok" THEN "ok"
  ELSE "pending"

\* (mutant) a lookup that answers an absent id with the bare id
NameOrBareId(tbl, id, label) ==
  IF id \in DOMAIN tbl THEN tbl[id].name ELSE ToString(id)

\* `map.get(id)?.name ?? label`
NameOrLabel(tbl, id, label) ==
  IF id \in DOMAIN tbl THEN tbl[id].name ELSE label \o ToString(id)

\* `acct?.display_name ?? acct?.name ?? label`
AccountLabel(tbl, id, label) ==
  IF id \in DOMAIN tbl
    THEN IF tbl[id].display_name # Null THEN tbl[id].display_name[1] ELSE tbl[id].name
    ELSE label \o ToString(id)

\* (mutant) a tag lookup that answers each distinct id once
TagNamesOnDistinct(tbl, ids) ==
  LET first == SelectSeq([i \in 1..Len(ids) |-> <<i, ids[i]>>],
                         LAMBDA p : \A j \in 1..(p[1] - 1) : ids[j] # p[2])
  IN [i \in 1..Len(first) |-> NameOrLabel(tbl, first[i][2], "Tag #")]

\* ids.map(id => c.tags.get(id)?.name ?? `Tag #${id}`) on one table
TagNamesOn(tbl, ids) == [i \in 1..Len(ids) |-> NameOrLabel(tbl, ids[i], "Tag #")]

\* (mutant) categoryName that looks the id up in the remote set
categoryNameLive(id) ==
  IF id = Null THEN Ok("Uncategorized")
  ELSE LET c == getCache
       IN IF ~c.ok THEN c ELSE Ok(NameOrLabel(remote.categories, id[1], "Category #"))

\* categoryName(id)
categoryName(id) ==
  IF id = Null THEN Ok("Uncategorized")
  ELSE LET c == getCache
       IN IF ~c.ok THEN c ELSE Ok(NameOrLabel(c.val.categories, id[1], "Category #"))

\* tagNames(ids)
tagNames(ids) ==
  LET c == getCache
  IN IF ~c.ok THEN c ELSE Ok(TagNamesOn(c.val.tags, ids))

\* (mutant) accountName that falls through to the synced account when the
\* manual id is not in its table
accountNameFallThrough(manualId, plaidId) ==
  LET c == getCache
  IN IF ~c.ok THEN c
     ELSE IF manualId # Null /\ (manualId[1] \in DOMAIN c.val.manualAccounts \/ plaidId = Null)
       THEN Ok(AccountLabel(c.val.manualAccounts, manualId[1], "Manual #"))
     ELSE IF plaidId # Null
       THEN Ok(AccountLabel(c.val.plaidAccounts, plaidId[1], "Plaid #"))
     ELSE Ok("Cash")

\* accountName(manualId, plaidId)
accountName(manualId, plaidId) ==
  LET c == getCache
  IN IF ~c.ok THEN c
     ELSE IF manualId # Null
       THEN Ok(AccountLabel(c.val.manualAccounts, manualId[1], "Manual #"))
     ELSE IF plaidId # Null
       THEN Ok(AccountLabel(c.val.plaidAccounts, plaidId[1], "Plaid #"))
     ELSE Ok("Cash")

\* ------------------------------------------------------------------ client.ts
\* (mutant) assertToken() that only logs
assertTokenLogOnly == Null

\* assertToken(): process.exit(1) when the token is not set, given as the
\* exit status; Null when it returns
assertToken == IF ~token THEN Some(1) ELSE Null

\* `throw new ApiError(status, message)`
ApiError(status, message) == [ok |-> FALSE, err |-> message, status |-> status]

RECURSIVE JoinWith(_, _)
\* Array.prototype.join of the error messages
JoinWith(strs, sep) ==
  IF Len(strs) = 0 THEN ""
  ELSE IF Len(strs) = 1 THEN strs[1]
  ELSE strs[1] \o sep \o JoinWith(Tail(strs), sep)

\* `parsed?.errors?.map((e) => e.errMsg).join("; ") ?? parsed?.message`: the
\* body is Null (none) or Some(record of errors and message, each optional)
Detail(body) ==
  IF body = Null THEN Null
  ELSE IF body[1].errors # Null THEN Some(JoinWith(body[1].errors[1], "; "))
  ELSE body[1].message

\* (mutant) handleError that lets a 404 pass
handleErrorLenient(status, detail) ==
  IF status = 404 THEN Ok(Null)
  ELSE IF status = 401 THEN ApiError(status, "API token invalid or expired. Check LUNCHMONEY_TOKEN.")
  ELSE IF status = 429 THEN ApiError(status, "Rate limit reached. Try again in a moment.")
  ELSE IF status >= 500 THEN ApiError(status, "Lunch Money API error. Try again later.")
  ELSE ApiError(status, IF detail # Null THEN detail[1]
                        ELSE "Request failed (" \o ToString(status) \o ").")

\* handleError(status, body): always throws; `detail` is the message of the
\* body, Null when the body carries none.
handleError(status, detail) ==
  IF status = 401 THEN ApiError(401, "API token invalid or expired. Check LUNCHMONEY_TOKEN.")
  ELSE IF status = 429 THEN ApiError(429, "Rate limit reached. Try again in a moment.")
  ELSE IF status = 404
    THEN ApiError(404, IF detail # Null THEN detail[1] ELSE "Resource not found.")
  ELSE IF status >= 500 THEN ApiError(status, "Lunch Money API error. Try again later.")
  ELSE ApiError(status, IF detail # Null THEN detail[1]
                        ELSE "Request failed (" \o ToString(status) \o ").")

\* ------------------------------------------------------------------ format.ts
\* (the source's em dash is written "-": the module is ASCII)
RECURSIVE Join(_, _)
\* Array.prototype.join
Join(strs, sep) ==
  IF Len(strs) = 0 THEN ""
  ELSE IF Len(strs) = 1 THEN strs[1]
  ELSE strs[1] \o sep \o Join(Tail(strs), sep)

\* (mutant) formatTransaction that leaves out a tag list it cannot name
formatTransactionOmitting(t) ==
  LET tg == IF Len(t.tag_ids) > 0 THEN tagNames(t.tag_ids) ELSE Ok(<<>>)
      ac == accountName(t.manual_account_id, t.plaid_account_id)
      ca == categoryName(t.category_id)
      known == tg.ok /\ \A i \in 1..Len(t.tag_ids) : t.tag_ids[i] \in DOMAIN getCache.val.tags
  IN IF ~tg.ok THEN tg
     ELSE IF ~ac.ok THEN ac
     ELSE IF ~ca.ok THEN ca
     ELSE Ok("  Category: " \o ca.val \o " | Account: " \o ac.val
             \o (IF Len(t.tag_ids) > 0 /\ known THEN " [" \o Join(tg.val, ", ") \o "]" ELSE "")
             \o "\n  ID: " \o ToString(t.id))

\* formatTransaction(t): the hydrated line of the output.  tagNames is called
\* first (only for a non-empty tag list), then accountName, then categoryName;
\* the first one that throws ends the call.
formatTransaction(t) ==
  LET tg == IF Len(t.tag_ids) > 0 THEN tagNames(t.tag_ids) ELSE Ok(<<>>)
      ac == accountName(t.manual_account_id, t.plaid_account_id)
      ca == categoryName(t.category_id)
  IN IF ~tg.ok THEN tg
     ELSE IF ~ac.ok THEN ac
     ELSE IF ~ca.ok THEN ca
     ELSE Ok("  Category: " \o ca.val \o " | Account: " \o ac.val
             \o (IF Len(t.tag_ids) > 0 THEN " [" \o Join(tg.val, ", ") \o "]" ELSE "")
             \o "\n  ID: " \o ToString(t.id))

RECURSIVE MapThrowing(_, _)
\* xs.map(f) for an f that may throw: the texts, or the first throw.
\* `outs` are the results f gave for the elements of xs, in order.
MapThrowing(outs, acc) ==
  IF Len(outs) = 0 THEN Ok(acc)
  ELSE IF ~Head(outs).ok THEN Head(outs)
  ELSE MapThrowing(Tail(outs), Append(acc, Head(outs).val))

\* formatTransactions(transactions, hasMore)
formatTransactions(transactions, hasMore) ==
  IF Len(transactions) = 0
    THEN Ok("No transactions found for this period. Try adjusting the date range or filters.")
  ELSE LET lines == MapThrowing([i \in 1..Len(transactions) |->
                                   formatTransaction(transactions[i])], <<>>)
       IN IF ~lines.ok THEN lines
          ELSE Ok("Showing " \o ToString(Len(transactions)) \o " transaction"
                  \o (IF Len(transactions) = 1 THEN "" ELSE "s")
                  \o (IF hasMore THEN " (more available - increase limit or use offset)" ELSE "")
                  \o "\n\n" \o Join(lines.val, "\n\n"))

\* the `group` part of formatCategories (flat) and formatCategory
GroupPart(cat) ==
  IF cat.group_id # Null
    THEN LET g == categoryName(cat.group_id)
         IN IF ~g.ok THEN g ELSE Ok(" [group: " \o g.val \o "]")
    ELSE Ok("")

\* formatCategory(cat)
formatCategory(cat) ==
  LET g == GroupPart(cat)
  IN IF ~g.ok THEN g
     ELSE Ok(cat.name \o g.val \o " (ID: " \o ToString(cat.id) \o ")")

\* formatCategories(categories, mode)
formatCategories(categories, mode) ==
  IF Len(categories) = 0 THEN Ok("No categories found.")
  ELSE IF mode = "nested"
    THEN Ok(Join([i \in 1..Len(categories) |->
                    categories[i].name \o " (ID: " \o ToString(categories[i].id) \o ")"], "\n"))
  ELSE LET lines == MapThrowing([i \in 1..Len(categories) |->
                                   formatCategory(categories[i])], <<>>)
       IN IF ~lines.ok THEN lines ELSE Ok(Join(lines.val, "\n"))

\* formatTag(tag)
formatTag(tag) == Ok(tag.name \o " (ID: " \o ToString(tag.id) \o ")")

\* formatAccount(account)
formatAccount(account) ==
  Ok((IF account.display_name # Null THEN account.display_name[1] ELSE account.name)
     \o " | ID: " \o ToString(account.id))

\* (mutant) formatDeleteResult that does not look at the dependents
formatDeleteResultPlain(type, id, deps) ==
  Ok(type \o " " \o ToString(id) \o " deleted successfully.")

\* formatDeleteResult(type, id, deps): deps is Null (not given) or
\* Some(sequence of [k, v]), the entries of the `dependents` object; the
\* entries with a count above 0 are listed
formatDeleteResult(type, id, deps) ==
  IF deps # Null
    THEN LET pos == SelectSeq(deps[1], LAMBDA e : e.v > 0)
             depLines == Join([i \in 1..Len(pos) |->
                                 "  " \o pos[i].k \o ": " \o ToString(pos[i].v)], "\n")
         IN Ok("Cannot delete " \o type \o " " \o ToString(id)
               \o " - has dependencies:\n" \o depLines
               \o "\n\nUse force=true to delete anyway.")
    ELSE Ok(type \o " " \o ToString(id) \o " deleted successfully.")

\* formatBulkUpdateResult(transactions): the count, the first three
\* transactions formatted, and how many more there are
formatBulkUpdateResult(transactions) ==
  LET count == Len(transactions)
      first == SubSeq(transactions, 1, IF count < 3 THEN count ELSE 3)
      preview == MapThrowing([i \in 1..Len(first) |-> formatTransaction(first[i])], <<>>)
  IN IF ~preview.ok THEN preview
     ELSE Ok(ToString(count) \o " transaction" \o (IF count = 1 THEN "" ELSE "s")
             \o " updated.\n\n" \o Join(preview.val, "\n\n")
             \o (IF count > 3 THEN "\n\n... and " \o ToString(count - 3) \o " more" ELSE ""))

\* formatAccounts(manual, plaid): reads the records it is given, not the cache
formatAccounts(manual, plaid) ==
  LET line(a) == (IF a.display_name # Null THEN a.display_name[1] ELSE a.name)
                   \o " | ID: " \o ToString(a.id)
      m == IF Len(manual) > 0
             THEN <<"## Manual Accounts\n">> \o [i \in 1..Len(manual) |-> line(manual[i])]
             ELSE <<>>
      p == IF Len(plaid) > 0
             THEN (IF Len(m) > 0 THEN <<"">> ELSE <<>>) \o <<"## Synced Accounts\n">>
                    \o [i \in 1..Len(plaid) |-> line(plaid[i])]
             ELSE <<>>
  IN IF Len(m \o p) = 0 THEN Ok("No accounts found.") ELSE Ok(Join(m \o p, "\n"))

\* formatTags(tags)
formatTags(tags) ==
  IF Len(tags) = 0
    THEN Ok("No tags found. Create tags in Lunch Money to organize transactions.")
    ELSE Ok(Join([i \in 1..Len(tags) |->
                    tags[i].name \o " (ID: " \o ToString(tags[i].id) \o ")"], "\n"))

\* formatUser(user)
formatUser(user) ==
  Ok(Join(<<"Name: " \o user.name, "Budget: " \o user.budget_name,
            "ID: " \o ToString(user.id)>>, "\n"))

\* formatSummary(data, ...): the per-category breakdown; a category whose
\* total is 0 is skipped before its name is resolved.
formatSummary(categories) ==
  LET shown == SelectSeq(categories, LAMBDA c : c.total # 0)
      lines == MapThrowing([i \in 1..Len(shown) |->
                 LET n == categoryName(Some(shown[i].category_id))
                 IN IF ~n.ok THEN n
                    ELSE Ok("  " \o n.val \o ": $" \o ToString(shown[i].total))], <<>>)
  IN IF ~lines.ok THEN lines
     ELSE Ok("Budget Summary"
             \o (IF Len(categories) > 0 THEN "\nCategory Breakdown:" ELSE "")
             \o (IF Len(shown) > 0 THEN "\n" \o Join(lines.val, "\n") ELSE ""))

\* formatRecurring(items)
formatRecurring(items) ==
  IF Len(items) = 0 THEN Ok("No recurring items found for this period.")
  ELSE LET lines == MapThrowing([i \in 1..Len(items) |->
                 LET ca == IF items[i].category_id # Null
                             THEN categoryName(items[i].category_id)
                             ELSE Ok("Uncategorized")
                     ac == accountName(items[i].manual_account_id, items[i].plaid_account_id)
                 IN IF ~ca.ok THEN ca
                    ELSE IF ~ac.ok THEN ac
                    ELSE Ok(" | " \o ca.val \o " | " \o ac.val
                            \o "\n  ID: " \o ToString(items[i].id))], <<>>)
       IN IF ~lines.ok THEN lines ELSE Ok(Join(lines.val, "\n\n"))

\* ------------------------------------------------------------------ index.ts
StartState ==
  /\ token \in BOOLEAN
  /\ mainPc = "start"
  /\ initState = "none"
  /\ initFetch = [t \in Types |-> "idle"]
  /\ initRes = [t \in Types |-> Null]
  /\ cache = Null
  /\ remote = InitialRemote
  /\ nextId = [t \in Types |-> 2]
  /\ remoteVer = [t \in Types |-> 0]
  /\ cacheVer = [t \in Types |-> 0]
  /\ ackVer = [t \in Types |-> 0]
  /\ installed = [t \in Types |-> Null]
  /\ initCalls = 0
  /\ initOrder = <<>>
  /\ fetches = [t \in Types |-> 0]
  /\ refreshes = [t \in Types |-> 0]
  /\ refreshFailed = FALSE
  /\ calls = {}
  /\ nCalls = 0
  /\ returned = Null

Init == StartState /\ trial = Null

\* main(): assertToken(), the tools are registered, initCache() is called:
\* the four fetchers each send their GET before the first await.
MainStart ==
  /\ mainPc = "start"
  /\ IF assertToken # Null
       THEN /\ mainPc' = "exited"
            /\ UNCHANGED <<initState, initFetch, initCalls, fetches>>
       ELSE /\ mainPc' = "init"
            /\ initCalls' = initCalls + 1
            /\ initState' = "pending"
            /\ initFetch' = [t \in Types |-> "pending"]
            /\ fetches' = [t \in Types |-> SendFetch(fetches, t)[t]]
  /\ returned' = Null
  /\ UNCHANGED <<trial, refreshFailed, token, initRes, cache, remote, nextId, remoteVer, cacheVer,
                 ackVer, installed, initOrder, refreshes, calls, nCalls>>

\* The response of one fetch of initCache arrives: the fetcher returns its Map
\* or handleError throws.  The continuation of Promise.all runs when the
\* aggregate settles: on success the cache is published.
InitFetchDone(t, ok) ==
  /\ initFetch[t] = "pending"
  /\ LET f == [initFetch EXCEPT ![t] = IF ok THEN "ok" ELSE "err"]
         r == [initRes EXCEPT ![t] = IF ok THEN Some(BuildMap(remote[t])) ELSE Null]
         s == IF initState = "pending" THEN AllState(f) ELSE initState
         o == Append(initOrder, t)
     IN /\ initFetch' = f
        /\ initRes' = r
        /\ initState' = s
        /\ initOrder' = o
        /\ IF initState = "pending" /\ s = "ok"
             THEN cache' = Publish(AllValues(r, o)) /\ installed' = r
             ELSE UNCHANGED <<cache, installed>>
  /\ fetches' = IF ok THEN fetches ELSE AfterFetchError(fetches, t)
  /\ returned' = Null
  /\ UNCHANGED <<trial, refreshFailed, token, mainPc, remote, nextId, remoteVer, cacheVer, ackVer,
                 initCalls, refreshes, calls, nCalls>>

\* (mutant) main() that does not await the promise of initCache()
InitNotAwaited == initState # "none"

\* `try { await initCache() } catch { ... }`: main goes on once the promise
\* has settled, fulfilled or rejected
InitAwaited ==
  /\ initState \in {"ok", "failed"}
  /\ \A t \in Types : initFetch[t] # "pending"

\* main() after `await initCache()` settled either way: server.connect().
\* The responses of fetches that initCache left behind when it failed are
\* taken to have arrived by then (their arrival changes nothing that main or a
\* handler reads, so it commutes with every later step); the promises and
\* results local to initCache are unreachable from here on and are dropped.
Connect ==
  /\ mainPc = "init"
  /\ InitAwaited
  /\ mainPc' = "connected"
  /\ initFetch' = [t \in Types |-> "idle"]
  /\ initRes' = [t \in Types |-> Null]
  /\ initOrder' = <<>>
  /\ returned' = Null
  /\ UNCHANGED <<trial, refreshFailed, token, initState, cache, remote, nextId, remoteVer, cacheVer,
                 ackVer, installed, initCalls, fetches, refreshes, calls, nCalls>>

\* ------------------------------------------------------------------ tools
\* (mutant) manage_transaction handled as a tool that refreshes the cache
ManageToolsAndTransaction ==
  {"manage_category", "manage_tag", "manage_account", "manage_transaction"}

\* the tools whose handlers call refreshCache
ManageTools == {"manage_category", "manage_tag", "manage_account"}

\* the tools whose handlers do not: the transaction tools and the read-only ones
ReadTools == {"list_transactions", "manage_transaction", "get_summary",
              "get_recurring", "list_categories", "bulk_update_transactions",
              "split_transaction", "group_transactions", "get_user",
              "get_accounts", "list_tags"}

\* (mutant) handlers that accept a split or a group without its array
ChecksNoArrays(tool, action) ==
  IF action = "create"
    THEN (IF tool = "manage_account" THEN {"name", "type", "balance"}
          ELSE IF tool = "manage_transaction" THEN {"date", "amount"}
          ELSE {"name"})
  ELSE IF action \in {"update", "delete", "ungroup"} THEN {"id"}
  ELSE IF action = "group" THEN {"date", "payee"}
  ELSE {}

\* The arguments a handler tests for before it sends its request: `!params.name`,
\* `params.id === undefined`, ...; "splits" and "ids" stand for an array of
\* at least 2 elements.
Checks(tool, action) ==
  IF action = "create"
    THEN (IF tool = "manage_account" THEN {"name", "type", "balance"}
          ELSE IF tool = "manage_transaction" THEN {"date", "amount"}
          ELSE {"name"})
  ELSE IF action \in {"update", "delete", "ungroup"} THEN {"id"}
  ELSE IF action = "split" THEN {"splits"}
  ELSE IF action = "group" THEN {"ids", "date", "payee"}
  ELSE {}

\* the text of the error result returned for a missing argument
MissingText(tool, action) ==
  IF action = "create"
    THEN (IF tool = "manage_account"
            THEN "Error: name, type, and balance are required for create."
          ELSE IF tool = "manage_transaction"
            THEN "Error: date and amount are required for create."
          ELSE "Error: name is required for create.")
  ELSE IF action = "split" THEN "Error: at least 2 splits are required."
  ELSE IF action = "group"
    THEN "Error: ids (min 2), date, and payee are required for group."
  ELSE "Error: id is required for " \o action \o "."

\* the arguments of a manage_category / manage_tag / manage_account call
\* that are present (more: type and balance)
GivenManage(id, name, more) ==
  (IF id # Null THEN {"id"} ELSE {}) \cup (IF name # Null THEN {"name"} ELSE {})
    \cup (IF more THEN {"type", "balance"} ELSE {})

\* what the 422 answer to a DELETE may carry as `dependents`
DependentBodies ==
  {Null,
   Some(<<[k |-> "transactions", v |-> 2], [k |-> "rules", v |-> 0]>>)}

\* (mutant) a handler that goes on after a 4xx answer
MutationFailedServerOnly(c) == c.http >= 500

\* `if (error) handleError(response.status, error)` after the mutation
MutationFailed(c) == c.http # 200

\* (mutant) manage_account working on the synced accounts
TypeOfSynced(tool) ==
  IF tool = "manage_category" THEN "categories"
  ELSE IF tool = "manage_tag" THEN "tags"
  ELSE "plaidAccounts"

\* the table a manage_* tool mutates and refreshes
TypeOf(tool) ==
  IF tool = "manage_category" THEN "categories"
  ELSE IF tool = "manage_tag" THEN "tags"
  ELSE "manualAccounts"

\* the word the tool's texts use for its resource
Noun(tool) ==
  IF tool = "manage_category" THEN "Category"
  ELSE IF tool = "manage_tag" THEN "Tag"
  ELSE "Account"

\* the record the remote stores for a created resource
NewRecord(type, name) ==
  IF type = "categories" THEN [name |-> name, group_id |-> Null]
  ELSE IF type = "tags" THEN [name |-> name]
  ELSE [name |-> name, display_name |-> Null]

\* the record after PUT: categories and tags are renamed, manual accounts
\* get the display name (the fields the resolvers read)
Updated(type, rec, name) ==
  IF type = "manualAccounts" THEN [rec EXCEPT !.display_name = Some(name)]
  ELSE [rec EXCEPT !.name = name]

\* a record of a table as the API returns it, carrying its id
WithId(id, rec) == [f \in DOMAIN rec \cup {"id"} |-> IF f = "id" THEN id ELSE rec[f]]

RECURSIVE RecordsFrom(_, _)
\* the records of a table in id order, as `data.categories`
RecordsFrom(tbl, i) ==
  IF i > MaxId + 1 THEN <<>>
  ELSE (IF i \in DOMAIN tbl THEN <<WithId(i, tbl[i])>> ELSE <<>>) \o RecordsFrom(tbl, i + 1)

\* the result of a handler: returned normally, returned with isError, or threw
Result(c, status, text) ==
  Some([n |-> c.n, tool |-> c.tool, action |-> c.action, status |-> status,
        text |-> text, http |-> c.http, at |-> c.pc])

\* a handler's return value from a formatter's result
FromFormat(c, prefix, f) ==
  IF f.ok THEN Result(c, "ok", prefix \o f.val) ELSE Result(c, "threw", f.err)

NewCall(tool, action) ==
  [n |-> nCalls + 1, tool |-> tool, action |-> action, pc |-> "start",
   id |-> Null, http |-> 0, data |-> Null, snap |-> Null, sver |-> 0, mver |-> 0,
   given |-> {}, deps |-> Null]

\* A tool call can arrive once the transport is connected.
CanCall ==
  /\ mainPc = "connected"
  /\ nCalls < MaxCalls
  /\ Cardinality(calls) < MaxInFlight

\* manage_category / manage_tag / manage_account, up to the first await: the
\* arguments are validated and the mutation is sent; the remote applies it or
\* answers with an error status.
\*   id, name : the arguments (Null when not given)
\*   more     : type and balance are given (manage_account create)
\*   http     : what the remote answers
CallManage(tool, action, id, name, more, http) ==
  /\ CanCall
  /\ nCalls' = nCalls + 1
  /\ LET type == TypeOf(tool)
         tbl == remote[type]
         given == GivenManage(id, name, more) \cap Checks(tool, action)
         c == [NewCall(tool, action) EXCEPT !.given = given]
         missing == ~(Checks(tool, action) \subseteq given)
     IN IF missing
          THEN /\ returned' = Result(c, "isError", MissingText(tool, action))
               /\ UNCHANGED <<remote, nextId, remoteVer, calls>>
          ELSE /\ returned' = Null
               /\ \/ /\ http = 500
                     /\ calls' = calls \cup {[c EXCEPT !.pc = "mutating", !.id = id, !.http = http]}
                     /\ UNCHANGED <<remote, nextId, remoteVer>>
                  \/ /\ http = 404
                     /\ action # "create"
                     /\ id[1] \notin DOMAIN tbl
                     /\ calls' = calls \cup {[c EXCEPT !.pc = "mutating", !.id = id, !.http = http]}
                     /\ UNCHANGED <<remote, nextId, remoteVer>>
                  \/ /\ http = 422
                     /\ action = "delete"
                     /\ id[1] \in DOMAIN tbl
                     /\ \E deps \in DependentBodies :
                          calls' = calls \cup {[c EXCEPT !.pc = "mutating", !.id = id,
                                                         !.http = http, !.deps = deps]}
                     /\ UNCHANGED <<remote, nextId, remoteVer>>
                  \/ /\ http = 200
                     /\ action = "create"
                     /\ nextId[type] <= MaxId
                     /\ remote' = [remote EXCEPT ![type] =
                                     (nextId[type] :> NewRecord(type, name[1])) @@ tbl]
                     /\ nextId' = [nextId EXCEPT ![type] = @ + 1]
                     /\ remoteVer' = [remoteVer EXCEPT ![type] = @ + 1]
                     /\ calls' = calls \cup
                          {[c EXCEPT !.pc = "mutating", !.http = http,
                                     !.id = Some(nextId[type]),
                                     !.data = Some(WithId(nextId[type], NewRecord(type, name[1]))),
                                     !.mver = remoteVer[type] + 1]}
                  \/ /\ http = 200
                     /\ action = "update"
                     /\ id[1] \in DOMAIN tbl
                     /\ LET rec == IF name = Null THEN tbl[id[1]]
                                   ELSE Updated(type, tbl[id[1]], name[1])
                        IN /\ remote' = [remote EXCEPT ![type] = [tbl EXCEPT ![id[1]] = rec]]
                           /\ calls' = calls \cup
                                {[c EXCEPT !.pc = "mutating", !.http = http, !.id = id,
                                           !.data = Some(WithId(id[1], rec)),
                                           !.mver = remoteVer[type] + 1]}
                     /\ remoteVer' = [remoteVer EXCEPT ![type] = @ + 1]
                     /\ UNCHANGED nextId
                  \/ /\ http = 200
                     /\ action = "delete"
                     /\ id[1] \in DOMAIN tbl
                     /\ remote' = [remote EXCEPT ![type] =
                                     [i \in DOMAIN tbl \ {id[1]} |-> tbl[i]]]
                     /\ remoteVer' = [remoteVer EXCEPT ![type] = @ + 1]
                     /\ calls' = calls \cup
                          {[c EXCEPT !.pc = "mutating", !.http = http, !.id = id,
                                     !.mver = remoteVer[type] + 1]}
                     /\ UNCHANGED nextId
  /\ UNCHANGED <<trial, refreshFailed, token, mainPc, initState, initFetch, initRes, cache, cacheVer,
                 ackVer, installed, initCalls, initOrder, fetches, refreshes>>

\* (mutant) a refresh that rebuilds the cache object around the new Map
InstallAlone(c, type, map) == [t \in Types |-> IF t = type THEN map ELSE EmptyTable]

\* (mutant) a refresh that writes the fetched records into the live Map
InstallMerged(c, type, map) == [c EXCEPT ![type] = map @@ c[type]]

\* (mutant) a refresh that adds only the records the live Map does not hold
InstallMissing(c, type, map) == [c EXCEPT ![type] = c[type] @@ map]

\* `c.<type> = <the Map the fetcher returned>`
Install(c, type, map) == [c EXCEPT ![type] = map]

\* (mutant) `c.<type> = await fetch().catch(() => new Map())`
RefreshedOrEmpty(c, type, http, snap) ==
  IF http # 200 THEN Install(c, type, EmptyTable) ELSE Install(c, type, snap[1])

\* (mutant) a refresh that keeps the records the new snapshot no longer has
RefreshedKeepingOld(c, type, http, snap) ==
  IF http # 200 THEN c ELSE Install(c, type, snap[1] @@ c[type])

\* `c.<type> = await fetch<Type>()`: the assignment runs only when the await
\* does not throw
Refreshed(c, type, http, snap) ==
  IF http # 200 THEN c ELSE Install(c, type, snap[1])

\* the text a manage_* tool returns after its refresh
ManageText(c) ==
  IF c.action = "delete"
    THEN IF c.tool = "manage_account"
           THEN Ok("Account " \o ToString(c.id[1])
                   \o " deleted successfully. Transactions were preserved.")
           ELSE formatDeleteResult(Noun(c.tool), c.id[1], Null)
    ELSE LET f == IF c.tool = "manage_category" THEN formatCategory(c.data[1])
                  ELSE IF c.tool = "manage_tag" THEN formatTag(c.data[1])
                  ELSE formatAccount(c.data[1])
             verb == IF c.action = "create" THEN " created.\n\n" ELSE " updated.\n\n"
         IN IF f.ok THEN Ok(Noun(c.tool) \o verb \o f.val) ELSE f

\* The response of the mutation arrives.  422 on deleting a category or tag is
\* returned as an error result; any other error goes through handleError and
\* leaves the handler as a throw.  Otherwise refreshCache(type) runs up to its
\* await: getCache() throws when the cache is null, else the fetch is sent and
\* the remote serves the snapshot (fetchOk) or an error.
OnMutationResponse(c, fetchOk) ==
  /\ c \in calls
  /\ c.pc = "mutating"
  /\ LET type == TypeOf(c.tool)
     IN IF c.http = 422 /\ c.action = "delete" /\ c.tool # "manage_account"
          THEN /\ returned' = Result(c, "isError",
                                     formatDeleteResult(Noun(c.tool), c.id[1], c.deps).val)
               /\ calls' = calls \ {c}
               /\ UNCHANGED <<fetches, refreshes>>
        ELSE IF MutationFailed(c)
          THEN /\ returned' = Result(c, "threw", handleError(c.http, Null).err)
               /\ calls' = calls \ {c}
               /\ UNCHANGED <<fetches, refreshes>>
        ELSE IF ~getCache.ok
          THEN /\ returned' = Result(c, "threw", getCache.err)
               /\ calls' = calls \ {c}
               /\ refreshes' = [refreshes EXCEPT ![type] = @ + 1]
               /\ UNCHANGED fetches
        ELSE /\ returned' = Null
             /\ refreshes' = [refreshes EXCEPT ![type] = @ + 1]
             /\ fetches' = SendFetch(fetches, type)
             /\ IF fetchOk
                  THEN calls' = (calls \ {c}) \cup
                            {[c EXCEPT !.pc = "refreshing", !.http = 200,
                                       !.snap = Some(BuildMap(remote[type])),
                                       !.sver = remoteVer[type]]}
                  ELSE calls' = (calls \ {c}) \cup
                            {[c EXCEPT !.pc = "refreshing", !.http = 500]}
  /\ UNCHANGED <<trial, refreshFailed, token, mainPc, initState, initFetch, initRes, cache, remote, nextId,
                 remoteVer, cacheVer, ackVer, installed, initCalls, initOrder, nCalls>>

\* The response of the refresh's fetch arrives.  On an error the fetcher's
\* handleError throws through refreshCache and the handler; otherwise the
\* table is assigned and the handler returns its success text.
OnRefreshResponse(c) ==
  /\ c \in calls
  /\ c.pc = "refreshing"
  /\ calls' = calls \ {c}
  /\ LET type == TypeOf(c.tool)
     IN /\ cache' = Some(Refreshed(cache[1], type, c.http, c.snap))
        /\ IF c.http # 200
          THEN /\ returned' = Result(c, "threw", handleError(c.http, Null).err)
               /\ fetches' = AfterFetchError(fetches, type)
               /\ refreshFailed' = TRUE
               /\ UNCHANGED <<cacheVer, ackVer, installed>>
          ELSE /\ installed' = [installed EXCEPT ![type] = c.snap]
               /\ UNCHANGED <<fetches, refreshFailed>>
               /\ cacheVer' = [cacheVer EXCEPT ![type] = c.sver]
               /\ ackVer' = [ackVer EXCEPT ![type] = IF c.mver > @ THEN c.mver ELSE @]
               /\ returned' = FromFormat(c, "", ManageText(c)')
  /\ UNCHANGED <<trial, token, mainPc, initState, initFetch, initRes, remote, nextId,
                 remoteVer, initCalls, initOrder, refreshes, nCalls>>

\* ---- the tools that hydrate what they return
\* What the remote may return for a transaction: no references at all, known
\* ids, ids no table holds, repeated tags, both account ids.
TxnSamples ==
  {[id |-> 1, category_id |-> Null, tag_ids |-> <<>>,
    manual_account_id |-> Null, plaid_account_id |-> Null],
   [id |-> 2, category_id |-> Some(1), tag_ids |-> <<1>>,
    manual_account_id |-> Some(1), plaid_account_id |-> Null],
   [id |-> 3, category_id |-> Some(UnknownId), tag_ids |-> <<1, UnknownId>>,
    manual_account_id |-> Null, plaid_account_id |-> Some(UnknownId)],
   [id |-> 4, category_id |-> Some(2), tag_ids |-> <<2, 2, 1>>,
    manual_account_id |-> Some(2), plaid_account_id |-> Some(2)],
   [id |-> 5, category_id |-> Null, tag_ids |-> <<>>,
    manual_account_id |-> Null, plaid_account_id |-> Some(2)]}

\* the transaction sample with the given id
Txn(i) == CHOOSE t \in TxnSamples : t.id = i

\* the actions of the tools that do not refresh
ReadActions(tool) ==
  IF tool = "list_transactions" THEN {"byId", "list"}
  ELSE IF tool = "manage_transaction" THEN {"create", "update", "delete"}
  ELSE IF tool = "list_categories" THEN {"flat", "nested"}
  ELSE IF tool = "split_transaction" THEN {"split", "unsplit"}
  ELSE IF tool = "group_transactions" THEN {"group", "ungroup"}
  ELSE IF tool = "bulk_update_transactions" THEN {"bulk"}
  ELSE {"get"}

\* what the remote may answer to the tool's request
Payloads(tool, action) ==
  IF tool = "list_transactions" /\ action = "list"
    THEN {<<>>} \cup {<<t>> : t \in TxnSamples}
                \cup {<<t, u>> : t \in {x \in TxnSamples : x.id = 1},
                                 u \in {x \in TxnSamples : x.id = 3}}
  ELSE IF tool \in {"list_transactions", "manage_transaction"}
    THEN IF action = "delete" THEN {<<>>} ELSE {<<t>> : t \in TxnSamples}
  ELSE IF tool = "get_summary"
    THEN {<<>>,
          <<[category_id |-> 1, total |-> 0]>>,
          <<[category_id |-> 1, total |-> 7], [category_id |-> UnknownId, total |-> 3]>>}
  ELSE IF tool = "get_recurring"
    THEN {<<>>} \cup {<<t>> : t \in TxnSamples}
  ELSE IF tool = "bulk_update_transactions"
    THEN {<<Txn(3)>>, <<Txn(1), Txn(2), Txn(5), Txn(3)>>}
  ELSE IF action \in {"split", "group"}
    THEN {<<Txn(2)>>, <<Txn(3)>>}
  ELSE IF tool = "get_user"
    THEN {<<[id |-> 7, name |-> "Ann", budget_name |-> "Home"]>>}
  ELSE {<<>>}

\* the handler's text for an answered request
ReadText(c, payload, hasMore) ==
  IF c.tool = "list_transactions"
    THEN IF c.action = "byId" THEN formatTransaction(payload[1])
         ELSE formatTransactions(payload, hasMore)
  ELSE IF c.tool = "manage_transaction"
    THEN IF c.action = "delete"
           THEN Ok("Transaction " \o ToString(c.id[1]) \o " deleted successfully.")
           ELSE LET f == formatTransaction(payload[1])
                IN IF f.ok THEN Ok("Transaction " \o c.action \o "d successfully.\n\n" \o f.val)
                   ELSE f
  ELSE IF c.tool = "get_summary" THEN formatSummary(payload)
  ELSE IF c.tool = "get_recurring" THEN formatRecurring(payload)
  ELSE IF c.tool = "bulk_update_transactions" THEN formatBulkUpdateResult(payload)
  ELSE IF c.tool = "split_transaction"
    THEN IF c.action = "unsplit"
           THEN Ok("Transaction " \o ToString(c.id[1])
                   \o " unsplit successfully. Original transaction restored.")
           ELSE LET f == formatTransaction(payload[1])
                IN IF f.ok THEN Ok("Transaction split into 2 parts.\n\n" \o f.val) ELSE f
  ELSE IF c.tool = "group_transactions"
    THEN IF c.action = "ungroup"
           THEN Ok("Transaction group " \o ToString(c.id[1])
                   \o " removed. Original transactions restored.")
           ELSE LET f == formatTransaction(payload[1])
                IN IF f.ok THEN Ok("2 transactions grouped.\n\n" \o f.val) ELSE f
  ELSE IF c.tool = "get_user" THEN formatUser(payload[1])
  ELSE IF c.tool = "get_accounts" THEN formatAccounts(c.data.manual, c.data.plaid)
  ELSE IF c.tool = "list_tags" THEN formatTags(c.data)
  ELSE formatCategories(c.data, c.action)

\* what the remote serves to the tools that list a resource set: the set as
\* it stands when the request is served
Served(tool) ==
  IF tool = "list_categories" THEN RecordsFrom(remote.categories, 1)
  ELSE IF tool = "list_tags" THEN RecordsFrom(remote.tags, 1)
  ELSE IF tool = "get_accounts"
    THEN [manual |-> RecordsFrom(remote.manualAccounts, 1),
          plaid |-> RecordsFrom(remote.plaidAccounts, 1)]
  ELSE Null

\* A tool that does not refresh, up to its await: the handler tests for the
\* arguments its action requires (given: those of them that are present) and
\* sends its request.  The listing tools are answered from the remote sets
\* as they stand when the request is served.
CallRead(tool, action, given, http) ==
  /\ CanCall
  /\ action \in ReadActions(tool)
  /\ given \subseteq Checks(tool, action)
  /\ nCalls' = nCalls + 1
  /\ LET c == [NewCall(tool, action) EXCEPT !.id = Some(1), !.given = given]
     IN IF ~(Checks(tool, action) \subseteq given)
          THEN /\ returned' = Result(c, "isError", MissingText(tool, action))
               /\ UNCHANGED calls
          ELSE /\ returned' = Null
               /\ calls' = calls \cup
                    {[c EXCEPT !.pc = "reading", !.http = http,
                               !.data = IF http = 200 THEN Served(tool) ELSE Null]}
  /\ UNCHANGED <<trial, refreshFailed, token, mainPc, initState, initFetch, initRes, cache, remote, nextId,
                 remoteVer, cacheVer, ackVer, installed, initCalls, initOrder,
                 fetches, refreshes>>

\* The response arrives: handleError throws on an error, otherwise the
\* formatter runs against the cache as it is now.
\*   payload, hasMore : what the remote answered
OnReadResponse(c, payload, hasMore) ==
  /\ c \in calls
  /\ c.pc = "reading"
  /\ calls' = calls \ {c}
  /\ IF c.http # 200
       THEN /\ payload = <<>>
            /\ ~hasMore
            /\ returned' = Result(c, "threw", handleError(c.http, Null).err)
       ELSE /\ payload \in Payloads(c.tool, c.action)
            /\ hasMore => (c.tool = "list_transactions" /\ c.action = "list" /\ Len(payload) > 0)
            /\ returned' = FromFormat(c, "", ReadText(c, payload, hasMore))
  /\ UNCHANGED <<trial, refreshFailed, token, mainPc, initState, initFetch, initRes, cache, remote, nextId,
                 remoteVer, cacheVer, ackVer, installed, initCalls, initOrder,
                 fetches, refreshes, nCalls>>

\* the answers a call in flight may get
Answers(c) == IF c.http # 200 THEN {<<>>} ELSE Payloads(c.tool, c.action)

OptIds == {Null} \cup {Some(i) : i \in Ids}
OptNames == {Null} \cup {Some(x) : x \in NewNames}
Statuses == {200, 404, 422, 500}

\* a manage_* call arrives, with any arguments and any answer of the remote
ManageCall ==
  /\ CanCall
  /\ \E tool \in ManageTools, action \in {"create", "update", "delete"},
        id \in OptIds, name \in OptNames, more \in BOOLEAN, http \in Statuses :
       CallManage(tool, action, id, name, more, http)

\* a call of a hydrating tool arrives
ReadCall ==
  /\ CanCall
  /\ \E tool \in ReadTools :
       \E action \in ReadActions(tool), http \in {200, 500} :
         \E given \in SUBSET {"id", "date", "amount", "splits", "ids", "payee"} :
           CallRead(tool, action, given, http)

\* the response some call in flight is waiting for arrives
MutationResponse == \E c \in calls, fetchOk \in BOOLEAN : OnMutationResponse(c, fetchOk)
RefreshResponse == \E c \in calls : OnRefreshResponse(c)
ReadResponse ==
  \E c \in calls :
    \E payload \in Answers(c), hasMore \in BOOLEAN : OnReadResponse(c, payload, hasMore)

Next ==
  \/ MainStart
  \/ \E t \in Types, ok \in BOOLEAN : InitFetchDone(t, ok)
  \/ Connect
  \/ ManageCall
  \/ ReadCall
  \/ MutationResponse
  \/ RefreshResponse
  \/ ReadResponse

Spec == Init /\ [][Next]_vars

\* ------------------------------------------------ functions taken on their own
\* A fetcher of cache.ts after its `await api.GET(...)`: `error` is set for a
\* status outside 2xx and handleError throws; otherwise the Map is built.
fetcher(status, body, records) ==
  IF status < 200 \/ status > 299 THEN handleError(status, Detail(body))
  ELSE Ok(BuildMap(records))

\* `past.setDate(past.getDate() - 30)`: dates are day numbers
DefaultDays == 30

\* (mutant) list_transactions that fills in each date that is missing
listRequestEachDefault(params, today) ==
  IF params.id # Null
    THEN [path |-> "/transactions/{id}", id |-> params.id, query |-> Null]
    ELSE [path |-> "/transactions", id |-> Null,
          query |-> Some([start_date |-> IF params.start_date = Null
                                           THEN Some(today - DefaultDays)
                                           ELSE params.start_date,
                          end_date |-> IF params.end_date = Null THEN Some(today)
                                       ELSE params.end_date,
                          category_id |-> params.category_id,
                          limit |-> IF params.limit # Null THEN params.limit ELSE Some(50)])]

\* The request list_transactions sends for its arguments: the lookup of one
\* transaction when `id` is given, else the filtered list, the dates
\* defaulted when neither is given, `limit: params.limit ?? 50`.
listRequest(params, today) ==
  IF params.id # Null
    THEN [path |-> "/transactions/{id}", id |-> params.id, query |-> Null]
    ELSE LET noDates == params.start_date = Null /\ params.end_date = Null
         IN [path |-> "/transactions", id |-> Null,
             query |-> Some([start_date |-> IF noDates THEN Some(today - DefaultDays)
                                            ELSE params.start_date,
                             end_date |-> IF noDates THEN Some(today) ELSE params.end_date,
                             category_id |-> params.category_id,
                             limit |-> IF params.limit # Null THEN params.limit ELSE Some(50)])]

\* the answers a fetcher may get: statuses, and bodies with and without
\* `errors` and `message`
FetchStatuses == {200, 400, 401, 403, 404, 422, 429, 500, 503}
ErrorBodies ==
  {Null} \cup
  {Some([errors |-> e, message |-> m]) :
     e \in {Null, Some(<<>>), Some(<<"bad id">>), Some(<<"bad id", "no name">>)},
     m \in {Null, Some("nope")}}

\* the arguments list_transactions may be called with, and the day of the call
ListParams ==
  [id : {Null, Some(1)}, start_date : {Null, Some(10)}, end_date : {Null, Some(20)},
   category_id : {Null, Some(1)}, limit : {Null, Some(10)}, today : {100, 365}]

Trials ==
  {[fn |-> "fetch", in |-> [status |-> st, body |-> b], out |-> Null] :
     st \in FetchStatuses, b \in ErrorBodies}
  \cup {[fn |-> "list", in |-> q, out |-> Null] : q \in ListParams}

InitFn == StartState /\ token /\ trial \in {Some(x) : x \in Trials}

\* the response of a fetcher's GET arrives
FetchAnswered ==
  /\ trial # Null
  /\ trial[1].fn = "fetch"
  /\ trial[1].out = Null
  /\ trial' = Some([trial[1] EXCEPT !.out =
                      Some(fetcher(trial[1].in.status, trial[1].in.body, remote.categories))])
  /\ UNCHANGED <<token, mainPc, initState, initFetch, initRes, cache, remote, nextId,
                 remoteVer, cacheVer, ackVer, installed, initCalls, initOrder, fetches,
                 refreshes, refreshFailed, calls, nCalls, returned>>

\* list_transactions is called and builds its request
ListCalled ==
  /\ trial # Null
  /\ trial[1].fn = "list"
  /\ trial[1].out = Null
  /\ trial' = Some([trial[1] EXCEPT !.out = Some(listRequest(trial[1].in, trial[1].in.today))])
  /\ UNCHANGED <<token, mainPc, initState, initFetch, initRes, cache, remote, nextId,
                 remoteVer, cacheVer, ackVer, installed, initCalls, initOrder, fetches,
                 refreshes, refreshFailed, calls, nCalls, returned>>

NextFn ==
  \/ FetchAnswered
  \/ ListCalled

SpecFn == InitFn /\ [][NextFn]_vars

\* ------------------------------------------------------------------ claims
\* the id arguments the resolvers are asked about
AnyOptIds == {Null} \cup {Some(i) : i \in Ids \cup {UnknownId}}
TagSeqs == {<<>>} \cup {<<i>> : i \in Ids \cup {UnknownId}}
                  \cup {<<i, j>> : i \in Ids \cup {UnknownId}, j \in Ids \cup {UnknownId}}

\* a manage_* call has a refresh in flight for table t
Refreshing(c, t) == c.pc = "refreshing" /\ TypeOf(c.tool) = t

\* C1: the cache is null or holds all four tables; never only some of them,
\* whatever the order and outcome of the four fetches of initCache.
C1_CacheAbsentOrWhole ==
  cache = Null \/ DOMAIN cache[1] = Types

\* C1 witness: initCache has published the cache after its four fetches
C1_Witness ==
  /\ mainPc = "init"
  /\ initState = "ok"
  /\ cache # Null
  /\ \A t \in Types : cache[1][t] = remote[t]

\* C2: a failed fetch fails initCache as a whole and leaves the cache null;
\* the Maps of the fetches that succeeded are not published.
C2_InitFailsAsAWhole ==
  /\ (\E t \in Types : initFetch[t] = "err") => initState = "failed"
  /\ initState = "failed" => cache = Null

\* C2 witness: tags failed, the other three fetches succeeded
C2_Witness ==
  /\ initState = "failed"
  /\ initFetch.tags = "err"
  /\ \A t \in Types \ {"tags"} : initFetch[t] = "ok" /\ initRes[t] # Null
  /\ cache = Null

\* C3 (as claimed): after a failed initCache every hydrating tool call whose
\* request the remote answered still returns its text.
C3_DegradedCallsComplete ==
  (/\ returned # Null
   /\ initState = "failed"
   /\ returned[1].tool \in ReadTools
   /\ returned[1].at = "reading"
   /\ returned[1].http = 200)
  => returned[1].status = "ok"

\* C4 (as claimed): in every state categoryName(null) is "Uncategorized" and
\* accountName(null, null) is "Cash".
C4_NullIdsAlwaysResolve ==
  /\ categoryName(Null) = Ok("Uncategorized")
  /\ accountName(Null, Null) = Ok("Cash")

\* C5 (as claimed): while the cache is null every resolution query throws
\* "Cache not initialized", null ids and the empty id list included.
C5_UninitializedAlwaysThrows ==
  cache = Null =>
    /\ \A id \in AnyOptIds : categoryName(id) = Threw(NotInitialized)
    /\ \A ids \in TagSeqs : tagNames(ids) = Threw(NotInitialized)
    /\ \A m \in AnyOptIds, p \in AnyOptIds : accountName(m, p) = Threw(NotInitialized)

\* C5 (amended): while the cache is null every resolution query throws
\* "Cache not initialized", except categoryName(null), which returns
\* "Uncategorized" without reading the cache.
C5_UninitializedThrowsButNullCategory ==
  cache = Null =>
    /\ \A id \in AnyOptIds \ {Null} : categoryName(id) = Threw(NotInitialized)
    /\ categoryName(Null) = Ok("Uncategorized")
    /\ \A ids \in TagSeqs : tagNames(ids) = Threw(NotInitialized)
    /\ \A m \in AnyOptIds, p \in AnyOptIds : accountName(m, p) = Threw(NotInitialized)

\* C5 witness: with the cache null after a failed initCache, a tool call's
\* resolution query has thrown
C5_Witness ==
  /\ cache = Null
  /\ initState = "failed"
  /\ returned # Null
  /\ returned[1].tool \in ReadTools
  /\ returned[1].status = "threw"
  /\ returned[1].text = NotInitialized

\* C6: a refresh changes at most its own table, whether its fetch succeeded
\* or failed; the assignment of refreshCache leaves the other three tables as
\* they are for each of the four types; and a tool call awaiting its response
\* can resolve while a refresh is in flight.
C6_RefreshFrame ==
  /\ [][\A c \in calls :
          (c.pc = "refreshing" /\ c \notin calls') =>
            \A t \in Types \ {TypeOf(c.tool)} : cache'[1][t] = cache[1][t]]_vars
  /\ [](cache # Null =>
          \A ty \in Types : \A t \in Types \ {ty} :
            Install(cache[1], ty, EmptyTable)[t] = cache[1][t])
  /\ [](\A c \in calls, r \in calls :
          (c.pc = "refreshing" /\ r.pc = "reading") =>
            ENABLED (\E payload \in Answers(r), hasMore \in BOOLEAN :
                       OnReadResponse(r, payload, hasMore)))

\* C6 witness: a tags refresh has landed and changed the tags table
C6_Witness ==
  /\ returned # Null
  /\ returned[1].tool = "manage_tag"
  /\ returned[1].at = "refreshing"
  /\ returned[1].status = "ok"
  /\ cache[1].tags # InitialRemote.tags
  /\ cache[1].categories = InitialRemote.categories

\* C7: a query never sees a mix of two tables.  While a refresh is in flight
\* every query answers from the complete table installed before it; the step
\* in which the refresh lands replaces that table by the complete fetched one,
\* and a query (tagNames over several ids included) answers from it alone.
C7_NoMixedSnapshot ==
  /\ [](\A c \in calls :
          (c.pc = "refreshing" /\ cache # Null) =>
            /\ \A ids \in TagSeqs :
                 tagNames(ids) = Ok(TagNamesOn(installed.tags[1], ids))
            /\ \A id \in Ids \cup {UnknownId} :
                 /\ categoryName(Some(id))
                      = Ok(NameOrLabel(installed.categories[1], id, "Category #"))
                 /\ accountName(Some(id), Null)
                      = Ok(AccountLabel(installed.manualAccounts[1], id, "Manual #")))
  /\ [][\A c \in calls :
          (c.pc = "refreshing" /\ c.http = 200 /\ c \notin calls') =>
            /\ Refreshing(c, "tags") =>
                 \A ids \in TagSeqs : tagNames(ids)' = Ok(TagNamesOn(c.snap[1], ids))
            /\ Refreshing(c, "categories") =>
                 \A id \in Ids \cup {UnknownId} :
                   categoryName(Some(id))' = Ok(NameOrLabel(c.snap[1], id, "Category #"))
            /\ Refreshing(c, "manualAccounts") =>
                 \A id \in Ids \cup {UnknownId} :
                   accountName(Some(id), Null)'
                     = Ok(AccountLabel(c.snap[1], id, "Manual #"))]_vars

\* C7 witness: list_transactions has resolved names while a tags refresh with
\* a different table was in flight
C7_Witness ==
  /\ returned # Null
  /\ returned[1].tool = "list_transactions"
  /\ returned[1].status = "ok"
  /\ \E c \in calls : Refreshing(c, "tags") /\ c.http = 200 /\ c.snap[1] # cache[1].tags

\* C8 (as claimed): when the mutation succeeded and the fetch of the refresh
\* after it fails, the tool call still reports the mutation and does not end
\* as a failed call.
C8_RefreshFailureNonFatal ==
  (/\ returned # Null
   /\ returned[1].tool \in ManageTools
   /\ returned[1].at = "refreshing")
  => returned[1].status = "ok"

\* C9: a refresh whose fetch fails leaves the table (and every answer of the
\* resolvers) exactly as it was before the response arrived.
C9_FailedRefreshKeepsTable ==
  [][\A c \in calls :
       (c.pc = "refreshing" /\ c.http # 200 /\ c \notin calls') =>
         /\ cache' = cache
         /\ \A ids \in TagSeqs : tagNames(ids)' = tagNames(ids)
         /\ \A id \in AnyOptIds : categoryName(id)' = categoryName(id)
         /\ \A m \in AnyOptIds, p \in AnyOptIds : accountName(m, p)' = accountName(m, p)]_vars

\* C9 witness: a refresh has failed after its mutation and the table is stale
C9_Witness ==
  /\ returned # Null
  /\ returned[1].tool = "manage_tag"
  /\ returned[1].at = "refreshing"
  /\ returned[1].status = "threw"
  /\ cache[1].tags = InitialRemote.tags
  /\ remote.tags # InitialRemote.tags

\* C10 (as claimed): once a manage_* call has returned success, the table of
\* its type holds a snapshot fetched after that call's mutation.
C10_AckedMutationInCache ==
  \A t \in Types : cacheVer[t] >= ackVer[t]

\* the name a record of an accounts table shows
Shown(rec) == IF rec.display_name # Null THEN rec.display_name[1] ELSE rec.name

\* C11: with the cache initialized, a known id of each resource type resolves
\* to the name in the snapshot that the last successful fetch of that type
\* installed, whatever refreshes (successful or failed) the other types had.
C11_ResolvesFromLastInstalled ==
  cache # Null =>
    /\ \A id \in DOMAIN installed.categories[1] :
         categoryName(Some(id)) = Ok(installed.categories[1][id].name)
    /\ \A id \in DOMAIN installed.tags[1] :
         tagNames(<<id>>) = Ok(<<installed.tags[1][id].name>>)
    /\ \A id \in DOMAIN installed.manualAccounts[1] : \A p \in AnyOptIds :
         accountName(Some(id), p) = Ok(Shown(installed.manualAccounts[1][id]))
    /\ \A id \in DOMAIN installed.plaidAccounts[1] :
         accountName(Null, Some(id)) = Ok(Shown(installed.plaidAccounts[1][id]))

\* C11 witness: after a tags refresh, manual account 1 got the display name
\* "Main" remotely and the refresh of manualAccounts has landed: accountName
\* answers "Main" where it answered "Checking"
C11_Witness ==
  /\ returned # Null
  /\ returned[1].tool = "manage_account"
  /\ returned[1].action = "update"
  /\ returned[1].at = "refreshing"
  /\ returned[1].status = "ok"
  /\ InitialRemote.manualAccounts[1].display_name = Null
  /\ accountName(Some(1), Null) = Ok("Main")
  /\ refreshes.tags > 0
  /\ categoryName(Some(1)) = Ok("Food")

\* C12: with the cache initialized, an id absent from its table resolves,
\* without a throw, to the label of the resource type followed by the id.
C12_AbsentIdGetsLabel ==
  cache # Null =>
    \A id \in Ids \cup {UnknownId} :
      /\ id \notin DOMAIN cache[1].categories =>
           categoryName(Some(id)) = Ok("Category #" \o ToString(id))
      /\ id \notin DOMAIN cache[1].tags =>
           tagNames(<<id>>) = Ok(<<"Tag #" \o ToString(id)>>)
      /\ id \notin DOMAIN cache[1].manualAccounts =>
           \A p \in AnyOptIds : accountName(Some(id), p) = Ok("Manual #" \o ToString(id))
      /\ id \notin DOMAIN cache[1].plaidAccounts =>
           accountName(Null, Some(id)) = Ok("Plaid #" \o ToString(id))

\* C12 witness: tag 1 was deleted and the refresh dropped it from the table;
\* it now resolves to its placeholder
C12_Witness ==
  /\ returned # Null
  /\ returned[1].tool = "manage_tag"
  /\ returned[1].action = "delete"
  /\ returned[1].status = "ok"
  /\ 1 \notin DOMAIN cache[1].tags
  /\ tagNames(<<1, UnknownId>>) = Ok(<<"Tag #1", "Tag #" \o ToString(UnknownId)>>)

\* id lists of up to three ids, repeated ids included
TagSeqs3 ==
  TagSeqs \cup {<<i, j, k>> : i \in Ids \cup {UnknownId}, j \in Ids, k \in Ids \cup {UnknownId}}

\* C13: tagNames(ids) has the length of ids and its i-th element is what
\* ids[i] resolves to on its own: order and repeated ids are kept.
C13_TagNamesPointwise ==
  cache # Null =>
    \A ids \in TagSeqs3 :
      /\ tagNames(ids).ok
      /\ Len(tagNames(ids).val) = Len(ids)
      /\ \A i \in 1..Len(ids) :
           tagNames(ids).val[i] =
             (IF ids[i] \in DOMAIN cache[1].tags THEN cache[1].tags[ids[i]].name
              ELSE "Tag #" \o ToString(ids[i]))

\* C13 witness: a transaction tagged <<2, 2, 1>> was listed after tag 2 was
\* created: the repeated tag is shown twice, in the order given
C13_Witness ==
  /\ returned # Null
  /\ returned[1].tool = "list_transactions"
  /\ returned[1].action = "byId"
  /\ returned[1].status = "ok"
  /\ 2 \in DOMAIN cache[1].tags
  /\ returned[1].text = "  Category: Category #2 | Account: Manual #2 [Main, Main, work]\n  ID: 4"
  /\ tagNames(<<1, UnknownId>>) = Ok(<<"work", "Tag #" \o ToString(UnknownId)>>)

\* C14: a non-null manual id decides the answer of accountName from the
\* manual-accounts table alone, whatever the synced id is; the synced table is
\* read only for a null manual id; the display name goes before the name.
C14_ManualIdFirst ==
  cache # Null =>
    /\ \A m \in Ids \cup {UnknownId} : \A p \in AnyOptIds :
         accountName(Some(m), p) =
           Ok(IF m \in DOMAIN cache[1].manualAccounts
                THEN Shown(cache[1].manualAccounts[m])
                ELSE "Manual #" \o ToString(m))
    /\ \A p \in Ids \cup {UnknownId} :
         accountName(Null, Some(p)) =
           Ok(IF p \in DOMAIN cache[1].plaidAccounts
                THEN Shown(cache[1].plaidAccounts[p])
                ELSE "Plaid #" \o ToString(p))

\* C14 witness: a transaction with manual id 2 (in no table) and synced id 2
\* (known as "Nest") was shown with the manual placeholder
C14_Witness ==
  /\ returned # Null
  /\ returned[1].tool = "manage_transaction"
  /\ returned[1].action = "update"
  /\ returned[1].status = "ok"
  /\ 2 \notin DOMAIN cache[1].manualAccounts
  /\ accountName(Null, Some(2)) = Ok("Nest")
  /\ returned[1].text = "Transaction updated successfully.\n\n"
       \o "  Category: Category #2 | Account: Manual #2 [Tag #2, Tag #2, work]\n  ID: 4"

\* C15 (as claimed): every initCache call has sent one GET per resource type
\* and every refreshCache(type) call one GET for its type, no more and no
\* fewer, failures included.
C15_OneFetchPerCall ==
  \A t \in Types : fetches[t] = initCalls + refreshes[t]

\* C15 (amended): the cache never retries, and a failed fetch reaches the
\* caller: initCache sends one GET per type; refreshCache(type) sends one GET
\* for its type when the cache is initialized and none when it is not (it
\* throws "Cache not initialized" first); a failed fetch fails initCache and
\* makes the handler that awaited refreshCache throw the fetcher's error.
C15_NoRetry ==
  /\ [](\A t \in Types :
          fetches[t] = initCalls + (IF cache # Null THEN refreshes[t] ELSE 0))
  /\ []((\E t \in Types : initFetch[t] = "err") => initState = "failed")
  /\ [][\A c \in calls :
          (c.pc = "refreshing" /\ c.http # 200 /\ c \notin calls') =>
            /\ returned'[1].status = "threw"
            /\ returned'[1].text = handleError(c.http, Null).err
            /\ \A d \in calls' : d.n # c.n
            /\ fetches' = fetches]_vars

\* C15 witness: a refresh of the tags has failed after one GET, and the
\* handler threw
C15_Witness ==
  /\ returned # Null
  /\ returned[1].tool = "manage_tag"
  /\ returned[1].at = "refreshing"
  /\ returned[1].status = "threw"
  /\ refreshes.tags = 1
  /\ fetches.tags = 2
  /\ cache # Null

\* C16: initCache sends its four fetches in one step, before any response is
\* awaited, and when all four succeed every table of the published cache is
\* the Map its own fetch returned, in whatever order the responses arrived.
C16_InitOrderIndependent ==
  /\ [][(mainPc = "start" /\ mainPc' = "init") =>
          \A t \in Types : initFetch'[t] = "pending" /\ fetches'[t] = 1]_vars
  /\ [](\A t \in Types :
          initFetch[t] \in {"ok", "err"} => \A u \in Types : initFetch[u] # "idle")
  /\ []((mainPc = "init" /\ initState = "ok") =>
          /\ cache # Null
          /\ \A t \in Types : cache[1][t] = initRes[t][1])

\* C16 witness: the four responses arrived in the reverse of the order the
\* fetches were started in, and the cache was published
C16_Witness ==
  /\ mainPc = "init"
  /\ initState = "ok"
  /\ initOrder = <<"plaidAccounts", "manualAccounts", "tags", "categories">>
  /\ \A t \in Types : cache[1][t] = initRes[t][1]
  /\ cache[1].categories # cache[1].plaidAccounts

\* C17: main calls initCache once; the transport is connected, and a tool
\* call can run, only after that call has succeeded or failed; initCache is
\* not called again and the cache object is created at most once, before the
\* first tool call.
C17_InitOnceBeforeCalls ==
  /\ [](initCalls <= 1)
  /\ [](mainPc = "connected" => (initCalls = 1 /\ initState \in {"ok", "failed"}))
  /\ []((nCalls > 0 \/ calls # {}) =>
          (mainPc = "connected" /\ initState \in {"ok", "failed"}))
  /\ [][/\ initCalls' >= initCalls
        /\ cache # Null => cache' # Null
        /\ mainPc = "connected" =>
             /\ initCalls' = initCalls
             /\ initState' = initState
             /\ (cache' = Null) = (cache = Null)]_vars

\* C17 witness: tool calls have run after the one initCache call succeeded
C17_Witness ==
  /\ mainPc = "connected"
  /\ initCalls = 1
  /\ initState = "ok"
  /\ nCalls = MaxCalls
  /\ returned # Null
  /\ returned[1].status = "ok"

\* C18: every table is the Map one fetch returned (a function of the record
\* id); the refresh that lands puts the fetched Map in place of the table, so
\* an id the fetched snapshot lacks resolves to its placeholder afterwards.
C18_TableIsOneSnapshot ==
  /\ [](cache # Null => \A t \in Types : cache[1][t] = installed[t][1])
  /\ [][\A c \in calls :
          (c.pc = "refreshing" /\ c.http = 200 /\ c \notin calls') =>
            /\ cache'[1][TypeOf(c.tool)] = c.snap[1]
            /\ \A id \in (Ids \cup {UnknownId}) \ DOMAIN c.snap[1] :
                 /\ Refreshing(c, "categories") =>
                      categoryName(Some(id))' = Ok("Category #" \o ToString(id))
                 /\ Refreshing(c, "tags") =>
                      tagNames(<<id>>)' = Ok(<<"Tag #" \o ToString(id)>>)
                 /\ Refreshing(c, "manualAccounts") =>
                      accountName(Some(id), Null)' = Ok("Manual #" \o ToString(id))]_vars

\* C18 witness: category 1, held since initCache, was deleted; the refresh
\* put a table without it in place and it resolves to its placeholder
C18_Witness ==
  /\ returned # Null
  /\ returned[1].tool = "manage_category"
  /\ returned[1].action = "delete"
  /\ returned[1].at = "refreshing"
  /\ returned[1].status = "ok"
  /\ 1 \in DOMAIN InitialRemote.categories
  /\ 1 \notin DOMAIN cache[1].categories
  /\ categoryName(Some(1)) = Ok("Category #1")

\* what each position of a transaction's line must show
CategoryShown(id) ==
  IF id = Null THEN "Uncategorized"
  ELSE IF id[1] \in DOMAIN cache[1].categories THEN cache[1].categories[id[1]].name
  ELSE "Category #" \o ToString(id[1])

AccountShown(m, p) ==
  IF m # Null
    THEN (IF m[1] \in DOMAIN cache[1].manualAccounts
            THEN Shown(cache[1].manualAccounts[m[1]]) ELSE "Manual #" \o ToString(m[1]))
  ELSE IF p # Null
    THEN (IF p[1] \in DOMAIN cache[1].plaidAccounts
            THEN Shown(cache[1].plaidAccounts[p[1]]) ELSE "Plaid #" \o ToString(p[1]))
  ELSE "Cash"

TagsShown(ids) ==
  IF Len(ids) = 0 THEN ""
  ELSE " [" \o Join([i \in 1..Len(ids) |->
                       IF ids[i] \in DOMAIN cache[1].tags THEN cache[1].tags[ids[i]].name
                       ELSE "Tag #" \o ToString(ids[i])], ", ") \o "]"

\* C19: with the cache initialized formatTransaction never throws, and its
\* line shows in the Category, Account and tag-list positions the stored name
\* of a known id and the placeholder "<Label> #<id>" of an unknown one; no
\* position is left out.
C19_PlaceholdersVerbatim ==
  cache # Null =>
    \A t \in TxnSamples :
      formatTransaction(t) =
        Ok("  Category: " \o CategoryShown(t.category_id)
           \o " | Account: " \o AccountShown(t.manual_account_id, t.plaid_account_id)
           \o TagsShown(t.tag_ids) \o "\n  ID: " \o ToString(t.id))

\* C19 witness: list_transactions returned a transaction whose category, tag
\* and synced account are in no table
C19_Witness ==
  /\ returned # Null
  /\ returned[1].tool = "list_transactions"
  /\ returned[1].action = "byId"
  /\ returned[1].status = "ok"
  /\ UnknownId = 3
  /\ returned[1].text = "  Category: Category #3 | Account: Plaid #3 [work, Tag #3]\n  ID: 3"

\* C20: once initCache has published the cache no step changes the synced
\* accounts table or an answer of accountName(null, plaidId), and no
\* refreshCache("plaidAccounts") is ever called: the only GET for the synced
\* accounts is the one of initCache.
C20_SyncedAccountsFrozen ==
  /\ [][cache # Null =>
          /\ cache'[1].plaidAccounts = cache[1].plaidAccounts
          /\ \A p \in AnyOptIds : accountName(Null, p)' = accountName(Null, p)]_vars
  /\ [](refreshes.plaidAccounts = 0 /\ fetches.plaidAccounts <= 1)

\* C20 witness: two manage_account calls have run and refreshed the manual
\* accounts; the synced accounts are as initCache fetched them
C20_Witness ==
  /\ returned # Null
  /\ returned[1].tool = "manage_account"
  /\ returned[1].at = "refreshing"
  /\ returned[1].status = "ok"
  /\ refreshes.manualAccounts = 2
  /\ cache[1].manualAccounts # InitialRemote.manualAccounts
  /\ cache[1].plaidAccounts = InitialRemote.plaidAccounts
  /\ accountName(Null, Some(2)) = Ok("Nest")

C22_DeleteWithDependents ==
  [][\A c \in calls :
       (/\ c.pc = "mutating" /\ c.http = 422 /\ c.action = "delete"
        /\ c.tool \in {"manage_category", "manage_tag"}
        /\ c.deps # Null
        /\ c \notin calls') =>
         /\ returned' # Null
         /\ returned'[1].n = c.n
         /\ returned'[1].status = "isError"
         /\ returned'[1].text =
              "Cannot delete " \o (IF c.tool = "manage_tag" THEN "Tag" ELSE "Category")
                \o " " \o ToString(c.id[1])
                \o " - has dependencies:\n  transactions: 2\n\nUse force=true to delete anyway."
         /\ \A d \in calls' : d.n # c.n
         /\ cache' = cache
         /\ refreshes' = refreshes
         /\ fetches' = fetches
         /\ remote' = remote]_vars

\* C22 witness: deleting category 1 was refused with 422 and its dependents
C22_Witness ==
  /\ returned # Null
  /\ returned[1].tool = "manage_category"
  /\ returned[1].action = "delete"
  /\ returned[1].http = 422
  /\ returned[1].status = "isError"
  /\ returned[1].text =
       "Cannot delete Category 1 - has dependencies:\n  transactions: 2\n\nUse force=true to delete anyway."
  /\ cache # Null
  /\ 1 \in DOMAIN cache[1].categories

\* the arguments the actions of the tools require
Required(tool, action) ==
  IF tool \in {"manage_category", "manage_tag"}
    THEN (IF action = "create" THEN {"name"} ELSE {"id"})
  ELSE IF tool = "manage_account"
    THEN (IF action = "create" THEN {"name", "type", "balance"} ELSE {"id"})
  ELSE IF tool = "manage_transaction"
    THEN (IF action = "create" THEN {"date", "amount"} ELSE {"id"})
  ELSE IF tool = "split_transaction"
    THEN (IF action = "split" THEN {"splits"} ELSE {})
  ELSE IF tool = "group_transactions"
    THEN (IF action = "group" THEN {"ids", "date", "payee"} ELSE {"id"})
  ELSE {}

\* C23: a call that lacks an argument its action requires returns an error
\* result (isError) in the step it arrives in: no request is in flight for it
\* afterwards, the remote sets, the cache and the counts of refreshes and
\* GETs are unchanged; and every call with a request in flight was given all
\* the arguments its action requires.
C23_MissingArgumentRejected ==
  /\ [](\A c \in calls : Required(c.tool, c.action) \subseteq c.given)
  /\ [][(returned' # Null /\ nCalls' = nCalls + 1) =>
          /\ returned'[1].status = "isError"
          /\ ~(Required(returned'[1].tool, returned'[1].action) \subseteq {})
          /\ calls' = calls
          /\ remote' = remote
          /\ cache' = cache
          /\ refreshes' = refreshes
          /\ fetches' = fetches]_vars
  /\ [][nCalls' = nCalls + 1 => (returned' # Null \/ Cardinality(calls') = Cardinality(calls) + 1)]_vars

\* C23 witness: group_transactions without its arguments was rejected while
\* another call was in flight
C23_Witness ==
  /\ returned # Null
  /\ returned[1].tool = "group_transactions"
  /\ returned[1].action = "group"
  /\ returned[1].status = "isError"
  /\ returned[1].text = "Error: ids (min 2), date, and payee are required for group."
  /\ calls # {}

\* C24: once initCache has failed the cache stays null for good, and a
\* manage_* call whose mutation the remote applied ends as a throw of
\* "Cache not initialized" from refreshCache, with the mutation in place.
C24_FailedInitIsFinal ==
  /\ [](initState = "failed" => cache = Null)
  /\ [][initState = "failed" => (initState' = "failed" /\ cache' = Null)]_vars
  /\ [][\A c \in calls :
          (/\ initState = "failed" /\ c.pc = "mutating" /\ c.http = 200
           /\ c \notin calls') =>
            /\ returned' # Null
            /\ returned'[1].n = c.n
            /\ returned'[1].status = "threw"
            /\ returned'[1].text = NotInitialized
            /\ remoteVer[TypeOf(c.tool)] >= c.mver
            /\ c.mver > 0]_vars

\* C24 witness: after a failed initCache, manage_tag create added the tag
\* remotely and the call failed
C24_Witness ==
  /\ initState = "failed"
  /\ cache = Null
  /\ returned # Null
  /\ returned[1].tool = "manage_tag"
  /\ returned[1].action = "create"
  /\ returned[1].status = "threw"
  /\ returned[1].text = NotInitialized
  /\ 2 \in DOMAIN remote.tags

\* C25 (as claimed): when no tool call is in flight and no refresh has
\* failed, the categories, tags and manual-accounts tables equal the remote
\* sets, overlapping mutating calls included.
C25_QuiescentCacheIsCurrent ==
  (calls = {} /\ cache # Null /\ ~refreshFailed) =>
    \A t \in Types \ {"plaidAccounts"} : cache[1][t] = remote[t]

\* C26: when the remote answers the mutation of a manage_* call with an
\* error, the call fails (a throw, or the error result of a 422 delete), no
\* refreshCache call is made, no GET is sent and the cache is unchanged; a
\* refresh in flight always follows a mutation the remote applied.
C26_NoRefreshAfterFailedMutation ==
  /\ [][\A c \in calls :
          (c.pc = "mutating" /\ c.http # 200 /\ c \notin calls') =>
            /\ returned' # Null
            /\ returned'[1].n = c.n
            /\ returned'[1].status \in {"threw", "isError"}
            /\ \A d \in calls' : d.n # c.n
            /\ refreshes' = refreshes
            /\ fetches' = fetches
            /\ cache' = cache]_vars
  /\ [](\A c \in calls : c.pc = "refreshing" => c.mver > 0)

\* C26 witness: a manage_account update was answered 404 and threw, with the
\* cache initialized
C26_Witness ==
  /\ returned # Null
  /\ returned[1].tool = "manage_account"
  /\ returned[1].action = "update"
  /\ returned[1].at = "mutating"
  /\ returned[1].http = 404
  /\ returned[1].status = "threw"
  /\ returned[1].text = "Resource not found."
  /\ cache # Null
  /\ refreshes.manualAccounts = 0

\* the tools that must not touch the cache
FrameTools ==
  {"list_transactions", "manage_transaction", "bulk_update_transactions",
   "split_transaction", "group_transactions", "get_user", "get_accounts",
   "get_summary", "get_recurring", "list_categories", "list_tags"}

\* C27: no step of a call of a transaction tool or a read-only tool changes
\* the cache or starts a refresh or a GET of the cache, whether the call is
\* rejected, fails or succeeds; such a call is never in a refresh.
C27_ReadToolsLeaveCache ==
  /\ [][/\ (returned' # Null /\ returned'[1].tool \in FrameTools) =>
             (cache' = cache /\ refreshes' = refreshes /\ fetches' = fetches)
        /\ \A c \in calls' \ calls :
             c.tool \in FrameTools =>
               (cache' = cache /\ refreshes' = refreshes /\ fetches' = fetches)]_vars
  /\ [](\A c \in calls : c.tool \in FrameTools => c.pc = "reading")

\* C27 witness: bulk_update_transactions has returned after get_accounts
\* did, and the cache is as initCache published it
C27_Witness ==
  /\ returned # Null
  /\ returned[1].tool = "bulk_update_transactions"
  /\ returned[1].status = "ok"
  /\ nCalls = MaxCalls
  /\ calls = {}
  /\ cache # Null
  /\ \A t \in Types : cache[1][t] = InitialRemote[t]
  /\ \A t \in Types : refreshes[t] = 0

\* the message the claim gives for a status and a detail
MessageFor(status, detail) ==
  IF status = 401 THEN "API token invalid or expired. Check LUNCHMONEY_TOKEN."
  ELSE IF status = 429 THEN "Rate limit reached. Try again in a moment."
  ELSE IF status = 404 THEN (IF detail # Null THEN detail[1] ELSE "Resource not found.")
  ELSE IF status >= 500 THEN "Lunch Money API error. Try again later."
  ELSE (IF detail # Null THEN detail[1] ELSE "Request failed (" \o ToString(status) \o ").")

C29_NoTokenNoRequest ==
  ~token =>
    /\ assertToken = Some(1)
    /\ mainPc \in {"start", "exited"}
    /\ initCalls = 0
    /\ initState = "none"
    /\ \A t \in Types : fetches[t] = 0 /\ initFetch[t] = "idle"
    /\ cache = Null
    /\ calls = {}
    /\ nCalls = 0

\* C29 witness: main has exited
C29_Witness ==
  /\ ~token
  /\ mainPc = "exited"
  /\ initCalls = 0

\* C30: with an id list_transactions sends the lookup of that transaction
\* and none of its filters; without one it sends the list request with the
\* filters as given, both dates defaulted to the last 30 days only when
\* neither is given, and limit 50 when none is given.
C30_ListRequest ==
  (trial # Null /\ trial[1].fn = "list" /\ trial[1].out # Null) =>
    LET a == trial[1].in
        r == trial[1].out[1]
    IN IF a.id # Null
         THEN r = [path |-> "/transactions/{id}", id |-> a.id, query |-> Null]
         ELSE /\ r.path = "/transactions"
              /\ r.id = Null
              /\ r.query[1].category_id = a.category_id
              /\ r.query[1].limit = (IF a.limit = Null THEN Some(50) ELSE a.limit)
              /\ (a.start_date = Null /\ a.end_date = Null) =>
                   /\ r.query[1].start_date = Some(a.today - 30)
                   /\ r.query[1].end_date = Some(a.today)
              /\ (a.start_date # Null \/ a.end_date # Null) =>
                   /\ r.query[1].start_date = a.start_date
                   /\ r.query[1].end_date = a.end_date

\* C30 witness: a call giving only start_date was sent without an end_date
\* and with limit 50
C30_Witness ==
  /\ trial # Null
  /\ trial[1].fn = "list"
  /\ trial[1].in.id = Null
  /\ trial[1].in.start_date = Some(10)
  /\ trial[1].in.end_date = Null
  /\ trial[1].in.limit = Null
  /\ trial[1].out # Null
  /\ trial[1].out[1].query[1].start_date = Some(10)
  /\ trial[1].out[1].query[1].end_date = Null
  /\ trial[1].out[1].query[1].limit = Some(50)
====
